---- MODULE Spec2Model ----
(***************************************************************************)
(* Model of the Yarn Plug'n'Play support of typescript-go:                  *)
(*   - the layered virtual file system pnpFS with its bounded cache of      *)
(*     open zip readers (package pnpvfs),                                   *)
(*   - the virtual-path rewriter resolveVirtual / makeVirtualPath,          *)
(*   - the process-wide PnP API singleton GetPnpApi / ClearPnpCache,        *)
(*   - the locator lookup and the resolver of PnpApi.                       *)
(*                                                                          *)
(* Strings.  A Go path string is modelled by the sequence of the pieces     *)
(* strings.Split(s, "/") yields: "" is <<"">>, "/" is <<"","">>, "/a/b" is  *)
(* <<"","a","b">>, "a/" is <<"a","">>.  The correspondence is one to one,   *)
(* so nothing of the string is lost.  A bare specifier is modelled by the   *)
(* sequence of its characters.                                              *)
(***************************************************************************)
EXTENDS Integers, Sequences, FiniteSets, TLC

VARIABLES
    \* ---- package pnpvfs: one pnpFS instance and its environment
    cachedZipReadersMap,  \* pnpFS.cachedZipReadersMap: zipPath -> cachedZipReader
    cacheReaderMutex,     \* pnpFS.cacheReaderMutex: Unlocked or the goroutine holding it
    closedReaders,        \* the readers on which Close has been invoked
    openedReaders,        \* how many readers zip.OpenReader has returned so far
    clock,                \* the value time.Now() returns
    disk,                 \* the underlying FS: archive -> [exists, valid, mtime]
    op,                   \* goroutine -> the FS operation it executes and its locals
    events,               \* FS operations started + clock ticks + archive rewrites
    \* ---- package pnp: the singleton
    isPnpApiInitialized,  \* atomic.Uint32
    cachedPnpApi,         \* *PnpApi (NoApi models nil)
    pnpMu,                \* sync.Mutex: Unlocked or the goroutine holding it
    manifestDirs,         \* directory -> the .pnp.cjs file it holds
    call,                 \* goroutine -> the call it executes and its locals
    discoveries,          \* the outcomes of the discovery attempts made, in order
    clears,               \* number of ClearPnpCache calls that have started
    apiEvents,            \* calls started + manifest files changed
    \* ---- pure functions: the case being evaluated
    pathCase,             \* resolveVirtual / makeVirtualPath
    pnpCase,              \* FindLocator / ResolveToUnqualified
    \* ---- package pnpvfs: the last operation called on the pnpFS
    fsCall

vfsVars  == <<cachedZipReadersMap, cacheReaderMutex, closedReaders, openedReaders,
              clock, disk, op, events>>
pnpVars  == <<isPnpApiInitialized, cachedPnpApi, pnpMu, manifestDirs, call,
              discoveries, clears, apiEvents>>
vars     == <<vfsVars, pnpVars, pathCase, pnpCase, fsCall>>
\* what a step of one part of the program leaves alone
notVfs   == <<pnpVars, pathCase, pnpCase, fsCall>>
notPnp   == <<vfsVars, pathCase, pnpCase, fsCall>>
notPath  == <<vfsVars, pnpVars, pnpCase, fsCall>>
notCase  == <<vfsVars, pnpVars, pathCase, fsCall>>
notCall  == <<pnpVars, pathCase, pnpCase>>

(***************************************************************************)
(* Strings and the Go path library (path, path/filepath on a Unix build).   *)
(***************************************************************************)
EmptyString == <<"">>
Root        == <<"", "">>
Dot         == <<".">>
\* A panic of the Go runtime, as a value no path equals.
Panic       == <<"#panic">>

Last(s) == s[Len(s)]
Front(s) == SubSeq(s, 1, Len(s) - 1)

\* len(p) > 0 && p[0] == '/'
IsRooted(p) == Len(p) >= 2 /\ p[1] = ""

RECURSIVE CleanComps(_, _, _)
CleanComps(segs, out, rooted) ==
    IF segs = <<>> THEN out
    ELSE LET s == Head(segs)
             r == Tail(segs)
         IN  IF s = "" \/ s = "." THEN CleanComps(r, out, rooted)
             ELSE IF s = ".."
                  THEN IF out # <<>> /\ Last(out) # ".."
                       THEN CleanComps(r, Front(out), rooted)
                       ELSE IF rooted THEN CleanComps(r, out, rooted)
                            ELSE CleanComps(r, Append(out, ".."), rooted)
                  ELSE CleanComps(r, Append(out, s), rooted)

\* path.Clean / filepath.Clean
Clean(p) ==
    IF p = EmptyString THEN Dot
    ELSE LET rooted == IsRooted(p)
             comps  == CleanComps(IF rooted THEN Tail(p) ELSE p, <<>>, rooted)
         IN  IF rooted
             THEN (IF comps = <<>> THEN Root ELSE <<"">> \o comps)
             ELSE (IF comps = <<>> THEN Dot ELSE comps)

\* path.Dir / filepath.Dir: the part up to the last slash, cleaned
Dir(p) == IF Len(p) = 1 THEN Dot ELSE Clean(Front(p) \o <<"">>)

\* filepath.Dir applied once whatever the depth
DirOnce(p, n) == IF n = 0 THEN p ELSE Dir(p)
RECURSIVE DirN(_, _)
DirN(p, n) == IF n = 0 THEN p ELSE DirN(Dir(p), n - 1)

RECURSIVE JoinRaw(_)
JoinRaw(elems) ==
    IF elems = <<>> THEN <<>>
    ELSE IF Head(elems) = EmptyString THEN JoinRaw(Tail(elems))
         ELSE Head(elems) \o JoinRaw(Tail(elems))

\* path.Join / filepath.Join: empty elements are ignored, the result is cleaned
Join(elems) ==
    LET raw == JoinRaw(elems)
    IN  IF raw = <<>> THEN EmptyString ELSE Clean(raw)

RECURSIVE CommonPrefix(_, _)
CommonPrefix(a, b) ==
    IF a = <<>> \/ b = <<>> \/ Head(a) # Head(b) THEN 0
    ELSE 1 + CommonPrefix(Tail(a), Tail(b))

\* filepath.Rel, after the common leading elements: Bk and Tk are what is
\* left of the base and of the target
RelWalk(Bk, Tk) ==
    IF Bk # <<>> /\ Tk # <<>> /\ Head(Bk) = ".." THEN [ok |-> FALSE]
    ELSE IF Bk # <<>>
         THEN [ok |-> TRUE, path |-> [i \in 1..Len(Bk) |-> ".."] \o Tk]
         ELSE [ok |-> TRUE, path |-> Tk]

RelFrom(B, T, k) == RelWalk(SubSeq(B, k + 1, Len(B)), SubSeq(T, k + 1, Len(T)))

\* the elements the loop of Rel walks over ("." counts as "")
RelElems(p) == IF p = Dot THEN <<>> ELSE IF p = Root THEN <<"">> ELSE p

RelCleaned(base, targ) ==
    IF targ = base THEN [ok |-> TRUE, path |-> Dot]
    ELSE IF IsRooted(base) # IsRooted(targ) THEN [ok |-> FALSE]
    ELSE RelFrom(RelElems(base), IF targ = Root THEN <<"">> ELSE targ,
                 CommonPrefix(RelElems(base),
                              IF targ = Root THEN <<"">> ELSE targ))

\* filepath.Rel: [ok |-> FALSE] is its error
Rel(basepath, targpath) == RelCleaned(Clean(basepath), Clean(targpath))

\* strconv.Atoi on the pieces the model uses: [ok |-> FALSE] is its error
Atoi(s) ==
    CASE s = "0"  -> [ok |-> TRUE, n |-> 0]
      [] s = "1"  -> [ok |-> TRUE, n |-> 1]
      [] s = "2"  -> [ok |-> TRUE, n |-> 2]
      [] s = "3"  -> [ok |-> TRUE, n |-> 3]
      [] s = "4"  -> [ok |-> TRUE, n |-> 4]
      [] s = "01" -> [ok |-> TRUE, n |-> 1]
      [] s = "+1" -> [ok |-> TRUE, n |-> 1]
      [] s = "-1" -> [ok |-> TRUE, n |-> 0 - 1]
      [] OTHER    -> [ok |-> FALSE]

\* strconv.Itoa
Itoa(n) ==
    CASE n = 0 -> "0"
      [] n = 1 -> "1"
      [] n = 2 -> "2"
      [] n = 3 -> "3"
      [] n = 4 -> "4"
      [] OTHER -> "many"

VirtualSeg == "__virtual__"

\* strings.Index(path, "/__virtual__/"): the position of the piece
\* "__virtual__" that has a slash on both sides, 0 when there is none
VirtualIndex(path) ==
    LET hits == {i \in 2..(Len(path) - 1) : path[i] = VirtualSeg}
    IN  IF hits = {} THEN 0 ELSE CHOOSE i \in hits : \A j \in hits : i <= j

Untouched(path) == [realPath |-> path, hash |-> "", basePath |-> EmptyString]

resolveVirtual(path) ==
    LET i == VirtualIndex(path) IN
    IF i = 0 THEN Untouched(path)
    ELSE LET rest == SubSeq(path, i + 1, Len(path)) IN
         \* strings.SplitN(rest, "/", 3)
         IF Len(rest) < 3 THEN Untouched(path)
         ELSE LET depth   == Atoi(rest[2])
                  subpath == SubSeq(rest, 3, Len(rest))
              IN  IF ~depth.ok \/ depth.n < 0 THEN Untouched(path)
                  ELSE LET base == DirN(SubSeq(path, 1, i - 1), depth.n)
                       IN  [realPath |-> IF base = Root THEN <<"">> \o subpath
                                         ELSE Join(<<base, subpath>>),
                            hash     |-> rest[1],
                            basePath |-> SubSeq(path, 1, i)]

\* a depth loop that stops after the first ".."
FirstDotDot(segments) ==
    IF segments = <<>> \/ Head(segments) # ".." THEN 0 ELSE 1
RECURSIVE LeadingDotDots(_)
LeadingDotDots(segments) ==
    IF segments = <<>> \/ Head(segments) # ".." THEN 0
    ELSE 1 + LeadingDotDots(Tail(segments))

\* strings.Join(segments[depth:], "/")
SubPath(segments, depth) ==
    IF depth >= Len(segments) THEN EmptyString
    ELSE SubSeq(segments, depth + 1, Len(segments))

\* Lines 254-263, from the result of filepath.Rel
VirtualFrom(basePath, hash, segments, depth) ==
    Join(<<basePath, <<hash>>, <<Itoa(depth)>>, SubPath(segments, depth)>>)

VirtualOfRel(basePath, hash, rel) ==
    IF ~rel.ok THEN Panic
    ELSE VirtualFrom(basePath, hash, rel.path, LeadingDotDots(rel.path))

makeVirtualPath(basePath, hash, targetPath) ==
    IF basePath = EmptyString \/ hash = "" THEN targetPath
    ELSE VirtualOfRel(basePath, hash, Rel(Dir(basePath), targetPath))

(***************************************************************************)
(* Bounds of the model.                                                     *)
(***************************************************************************)
\* pnpFS.maxOpenReaders.  From sets it to 80; the model runs the same code
\* with a small capacity so that a full cache is reached.
maxOpenReaders == 2
\* Number of zip archives on the underlying FS: more than the capacity.
MaxArchives    == maxOpenReaders + 1
\* Number of goroutines calling into one pnpFS / into package pnp.
MaxGoroutines  == 2
\* A run holds at most MaxEvents events: FS operations started, ticks of
\* the clock and rewrites of an archive.
MaxEvents      == 4

(***************************************************************************)
(* Zip paths (tspath.IsZipPath, splitZipPath).                              *)
(***************************************************************************)
ZipSeg(i) ==
    CASE i = 1 -> "z1.zip"
      [] i = 2 -> "z2.zip"
      [] i = 3 -> "z3.zip"
      [] i = 4 -> "z4.zip"
      [] OTHER -> "z5.zip"

\* The pieces of the model's paths that end in ".zip", and what is left of
\* them when ".zip" is cut off.
ZipSegs == {ZipSeg(i) : i \in 1..5} \cup {"gone.zip"}
Stem(s) ==
    CASE s = "z1.zip" -> "z1"
      [] s = "z2.zip" -> "z2"
      [] s = "z3.zip" -> "z3"
      [] s = "z4.zip" -> "z4"
      [] s = "z5.zip" -> "z5"
      [] OTHER        -> "gone"

\* strings.HasSuffix(path, ".zip")
HasZipSuffix(path) == Last(path) \in ZipSegs
\* the positions i at which ".zip/" occurs: a piece ending in ".zip" that a
\* slash follows
ZipSlashAt(path) == {i \in 1..(Len(path) - 1) : path[i] \in ZipSegs}

IsZipPath(path) == ZipSlashAt(path) # {} \/ HasZipSuffix(path)

\* strings.Split(path, ".zip/"): parts[0] + ".zip" and "/" + parts[1]
splitZipPath(path) ==
    LET at == ZipSlashAt(path) IN
    IF at = {} THEN [zipPath |-> path, internalPath |-> Root]
    ELSE LET i    == CHOOSE x \in at : \A y \in at : x <= y
             more == at \ {i}
         IN  [zipPath      |-> SubSeq(path, 1, i),
              internalPath |->
                  IF more = {} THEN <<"">> \o SubSeq(path, i + 1, Len(path))
                  ELSE LET j == CHOOSE x \in more : \A y \in more : x <= y
                       IN  <<"">> \o SubSeq(path, i + 1, j - 1) \o <<Stem(path[j])>>]

(***************************************************************************)
(* The underlying FS as far as the reader cache reads it: the archives that *)
(* exist, whether zip.OpenReader can open them, and their ModTime.          *)
(***************************************************************************)
Goroutines   == 1..MaxGoroutines
ArchivePaths == {<<"", ZipSeg(i)>> : i \in 1..MaxArchives}
NoStat       == [exists |-> FALSE]

\* pnpFS.fs.Stat(zipPath): nil (NoStat) when there is no such file
ZipStat(dsk, zipPath) ==
    IF zipPath \in DOMAIN dsk
    THEN [exists |-> TRUE, mtime |-> dsk[zipPath].mtime]
    ELSE NoStat

\* zip.OpenReader(zipPath) returns no error
CanOpen(dsk, zipPath) == zipPath \in DOMAIN dsk /\ dsk[zipPath].valid

(***************************************************************************)
(* The reader cache: the steps of getMatchingFS under cacheReaderMutex.     *)
(***************************************************************************)
NoReader == 0
\* No cachedZipReader (a nil *cachedZipReader).
NoEntry  == [reader |-> 0, lastUsed |-> 0, zipMTime |-> 0]
\* The value of a sync.Mutex nobody holds (goroutines are numbered from 1).
Unlocked == 0

\* ok && cachedReader.zipMTime.Equal(zipMTime)
CacheHitIgnoringMTime(map, zipPath, zipMTime) == zipPath \in DOMAIN map
CacheHit(map, zipPath, zipMTime) ==
    zipPath \in DOMAIN map /\ map[zipPath].zipMTime = zipMTime

\* len(pnpFS.cachedZipReadersMap) >= pnpFS.maxOpenReaders
CacheOverFull(map) == Cardinality(DOMAIN map) > maxOpenReaders
CacheFull(map) == Cardinality(DOMAIN map) >= maxOpenReaders

\* deleteOldestReader: the entries its loop can end on.  The loop keeps the
\* first entry it meets whose lastUsed no other entry is Before; Go ranges
\* over a map in an unspecified order, so it can be any entry of minimal
\* lastUsed.
NewestReaders(map) ==
    {p \in DOMAIN map : \A q \in DOMAIN map : map[p].lastUsed >= map[q].lastUsed}
OldestReaders(map) ==
    {p \in DOMAIN map : \A q \in DOMAIN map : map[p].lastUsed <= map[q].lastUsed}

\* delete(pnpFS.cachedZipReadersMap, oldestReaderPath)
MapDelete(map, path) == [p \in DOMAIN map \ {path} |-> map[p]]

\* pnpFS.cachedZipReadersMap[zipPath] = usedReader
MapPut(map, path, entry) ==
    [p \in DOMAIN map \cup {path} |-> IF p = path THEN entry ELSE map[p]]

cachedZipReader(reader, lastUsed, zipMTime) ==
    [reader |-> reader, lastUsed |-> lastUsed, zipMTime |-> zipMTime]


(***************************************************************************)
(* Specification Spec: goroutines calling getMatchingFS of one pnpFS, and   *)
(* the environment (the clock, the archives on disk).                       *)
(*                                                                          *)
(* op[g].pc is the goroutine's position in getMatchingFS:                   *)
(*   "idle"   not in a call                                                 *)
(*   "lock"   before cacheReaderMutex.Lock(), zipStat taken                 *)
(*   "evict"  holds the mutex, a new reader is open, before the capacity    *)
(*            test                                                          *)
(*   "insert" holds the mutex, before the new entry is stored               *)
(*   "use"    returned; the caller is about to call the returned FS         *)
(* hit, stale and evicted record what the call has done under the mutex:    *)
(* they are history the claims read, kept until the operation ends.         *)
(***************************************************************************)
IdleOp == [pc |-> "idle", path |-> EmptyString, zipPath |-> EmptyString,
           internalPath |-> EmptyString, zipMTime |-> 0, reader |-> NoReader,
           fs |-> "none", hit |-> FALSE, stale |-> FALSE, evicted |-> NoEntry]

\* The paths the goroutines of Spec pass in: a file in each archive, one in
\* an archive that does not exist, a plain file, and a file of the first
\* archive reached through a virtual folder.
CachePaths ==
    {a \o <<"f">> : a \in ArchivePaths}
        \cup {<<"", "gone.zip", "f">>, <<"", "p", "f">>,
              <<"", "p", VirtualSeg, "h", "1", ZipSeg(1), "f">>}

InitVfs ==
    /\ cachedZipReadersMap = <<>>
    /\ cacheReaderMutex = Unlocked
    /\ closedReaders = {}
    /\ openedReaders = 0
    /\ clock = 0
    /\ disk = [a \in ArchivePaths |-> [valid |-> TRUE, mtime |-> 1]]
    /\ op = [g \in Goroutines |-> IdleOp]
    /\ events = 0

\* Lines 151-161 and the resolveVirtual call of the operation that precedes
\* them: the path is classified and the archive is stat'ed.
Enter(g, path) ==
    /\ op[g].pc = "idle"
    /\ events < MaxEvents
    /\ events' = events + 1
    /\ LET real  == resolveVirtual(path).realPath
           split == splitZipPath(real)
           st    == ZipStat(disk, split.zipPath)
       IN  IF ~IsZipPath(real) \/ ~st.exists
           THEN \* lines 153 and 160: the underlying FS is returned, and
                \* nothing the goroutines share has been touched
                op' = [op EXCEPT ![g] = IdleOp]
           ELSE op' = [op EXCEPT ![g] =
                          [IdleOp EXCEPT !.pc = "lock", !.path = real,
                                         !.zipPath = split.zipPath,
                                         !.internalPath = split.internalPath,
                                         !.zipMTime = st.mtime]]
    /\ UNCHANGED <<cachedZipReadersMap, cacheReaderMutex, closedReaders,
                   openedReaders, clock, disk, notVfs>>

\* Lines 165-178: Lock, the lookup, and on a miss zip.OpenReader.  On a
\* hit, and when the archive cannot be opened, the function returns and the
\* deferred Unlock runs; otherwise the goroutine goes on under the mutex.
Lookup(g) ==
    /\ op[g].pc = "lock"
    /\ cacheReaderMutex = Unlocked
    /\ LET zp == op[g].zipPath IN
       IF CacheHit(cachedZipReadersMap, zp, op[g].zipMTime)
       THEN /\ cachedZipReadersMap' =
                   [cachedZipReadersMap EXCEPT ![zp].lastUsed = clock]
            /\ op' = [op EXCEPT ![g].pc = "use", ![g].hit = TRUE,
                                ![g].reader = cachedZipReadersMap[zp].reader,
                                ![g].fs = "zip"]
            /\ UNCHANGED <<openedReaders, cacheReaderMutex>>
       ELSE IF CanOpen(disk, zp)
            THEN /\ openedReaders' = openedReaders + 1
                 /\ cacheReaderMutex' = g
                 /\ op' = [op EXCEPT ![g].pc = "evict",
                                     ![g].reader = openedReaders + 1,
                                     ![g].stale = (zp \in DOMAIN cachedZipReadersMap)]
                 /\ UNCHANGED cachedZipReadersMap
            ELSE /\ op' = [op EXCEPT ![g].pc = "use", ![g].fs = "under",
                                     ![g].stale = (zp \in DOMAIN cachedZipReadersMap)]
                 /\ UNCHANGED <<cachedZipReadersMap, openedReaders, cacheReaderMutex>>
    /\ UNCHANGED <<closedReaders, clock, disk, events, notVfs>>

\* Lines 180-182 and deleteOldestReader
Evict(g) ==
    /\ op[g].pc = "evict"
    /\ IF CacheFull(cachedZipReadersMap)
       THEN \E victim \in OldestReaders(cachedZipReadersMap) :
                /\ closedReaders' =
                       closedReaders \cup {cachedZipReadersMap[victim].reader}
                /\ cachedZipReadersMap' = MapDelete(cachedZipReadersMap, victim)
                /\ op' = [op EXCEPT ![g].pc = "insert",
                             ![g].evicted = cachedZipReadersMap[victim]]
       ELSE /\ op' = [op EXCEPT ![g].pc = "insert"]
            /\ UNCHANGED <<cachedZipReadersMap, closedReaders>>
    /\ UNCHANGED <<cacheReaderMutex, openedReaders, clock, disk, events, notVfs>>

\* Lines 184-188: the new entry is stored, the function returns and the
\* deferred Unlock runs
Insert(g) ==
    /\ op[g].pc = "insert"
    /\ cachedZipReadersMap' =
           MapPut(cachedZipReadersMap, op[g].zipPath,
                  cachedZipReader(op[g].reader, clock, op[g].zipMTime))
    /\ cacheReaderMutex' = Unlocked
    /\ op' = [op EXCEPT ![g].pc = "use", ![g].fs = "zip"]
    /\ UNCHANGED <<closedReaders, openedReaders, clock, disk, events, notVfs>>

\* The caller's call on the FS getMatchingFS returned (fs.ReadFile(...),
\* fs.Stat(...), ...): through the reader, or on the underlying FS.
UseFS(g) ==
    /\ op[g].pc = "use"
    /\ op' = [op EXCEPT ![g] = IdleOp]
    /\ UNCHANGED <<cachedZipReadersMap, cacheReaderMutex, closedReaders,
                   openedReaders, clock, disk, events, notVfs>>

\* time passes
Tick ==
    /\ events < MaxEvents
    /\ events' = events + 1
    /\ clock' = clock + 1
    /\ UNCHANGED <<cachedZipReadersMap, cacheReaderMutex, closedReaders,
                   openedReaders, disk, op, notVfs>>

\* Another process rewrites an archive: its ModTime changes, and what is
\* written may or may not be a zip file OpenReader accepts.
Touch(a) ==
    /\ events < MaxEvents
    /\ events' = events + 1
    /\ \E v \in BOOLEAN :
           disk' = [disk EXCEPT ![a] = [valid |-> v, mtime |-> disk[a].mtime + 1]]
    /\ UNCHANGED <<cachedZipReadersMap, cacheReaderMutex, closedReaders,
                   openedReaders, clock, op, notVfs>>

(***************************************************************************)
(* Package pnp: the singleton PnP API.                                      *)
(***************************************************************************)
\* A run holds at most MaxApiEvents calls of GetPnpApi and ClearPnpCache and
\* changes of a manifest file.
MaxApiEvents == 4

\* nil *PnpApi
NoApi == [url |-> EmptyString, manifest |-> EmptyString]
\* &PnpApi{url: filePath, manifest: the data parsed from dir/.pnp.cjs}
PnpApi(filePath, dir) == [url |-> filePath, manifest |-> dir]

\* The directories the model's manifest files can be in, and the file paths
\* GetPnpApi is called with.
ManifestPlaces == {<<"", "r">>}
ApiPaths       == {<<"", "r", "a">>, <<"", "r">>, <<"", "x">>}

\* findClosestPnpManifest: the directory of the manifest found, with what
\* parseManifestFromPath returns for it; [ok |-> FALSE] is an error.  The
\* loop ends before it looks into "/" (unless it starts there).
RECURSIVE findClosestPnpManifest(_, _)
findClosestPnpManifest(files, directoryPath) ==
    IF directoryPath \in DOMAIN files /\ files[directoryPath] # "none"
    THEN [ok |-> files[directoryPath] = "good", dir |-> directoryPath]
    ELSE IF Dir(directoryPath) = Root
         THEN [ok |-> FALSE, dir |-> EmptyString]
         ELSE findClosestPnpManifest(files, Dir(directoryPath))

\* Lines 37-46: what GetPnpApi stores in cachedPnpApi
Discovered(files, filePath) ==
    LET found == findClosestPnpManifest(files, filePath)
    IN  IF found.ok THEN PnpApi(filePath, found.dir) ELSE NoApi

\* isPnpApiInitialized.Load() == 1
AlwaysUninitialized(flag) == FALSE
IsInitialized(flag) == flag = 1

\* The flag after line 20 of ClearPnpCache, from the flag before it
FlagKept(flag) == flag
FlagCleared(flag) == 0

(***************************************************************************)
(* call[g].pc is the goroutine's position:                                  *)
(*   "idle"     not in a call; returned, ret and the fields below describe  *)
(*              the last call                                               *)
(*   "load"     GetPnpApi, before the Load of line 26                       *)
(*   "fast"     line 27, before the read of cachedPnpApi                    *)
(*   "lock"     line 30, before pnpMu.Lock()                                *)
(*   "find"     holds pnpMu, flag found 0 at line 33, before line 37        *)
(*   "store"    holds pnpMu, cachedPnpApi written, before line 48           *)
(*   "c-lock"   ClearPnpCache, before pnpMu.Lock()                          *)
(*   "c-slot"   holds pnpMu, before line 19                                 *)
(*   "c-flag"   holds pnpMu, before line 20                                 *)
(* History the claims read: at the start of a GetPnpApi call, flagAtEntry   *)
(* (the flag), discAtEntry (the attempts made), slotAtEntry (the cached     *)
(* API), and quiet (no ClearPnpCache call is running); a ClearPnpCache call *)
(* that starts clears quiet in every running call.  via tells which return  *)
(* statement ended the call, and foreign that it returned an API made for   *)
(* the path of another call; the locals and the snapshots are dropped at    *)
(* the return.                                                              *)
(***************************************************************************)
IdleCall == [pc |-> "idle", kind |-> "none", path |-> EmptyString,
             returned |-> FALSE, ret |-> NoApi, via |-> "none",
             flagAtEntry |-> 0, discAtEntry |-> 0, slotAtEntry |-> NoApi,
             quiet |-> FALSE, foreign |-> FALSE, openedAtEntry |-> 0]

Foreign(api, filePath) == api # NoApi /\ api.url # filePath

Clearing == {g \in Goroutines : call[g].kind = "clear" /\ call[g].pc # "idle"}

InitPnp ==
    /\ isPnpApiInitialized = 0
    /\ cachedPnpApi = NoApi
    /\ pnpMu = Unlocked
    /\ manifestDirs \in [ManifestPlaces -> {"none", "good", "bad"}]
    /\ call = [g \in Goroutines |-> IdleCall]
    /\ discoveries = <<>>
    /\ clears = 0
    /\ apiEvents = 0

\* A goroutine calls GetPnpApi(filePath).
GetPnpApi(g, filePath) ==
    /\ call[g].pc = "idle"
    /\ apiEvents < MaxApiEvents
    /\ apiEvents' = apiEvents + 1
    /\ call' = [call EXCEPT ![g] =
                   [IdleCall EXCEPT !.pc = "load", !.kind = "get",
                                    !.path = filePath,
                                    !.flagAtEntry = isPnpApiInitialized,
                                    !.discAtEntry = Len(discoveries)
                                        - Cardinality({h \in Goroutines :
                                              call[h].pc = "store"}),
                                    !.slotAtEntry = cachedPnpApi,
                                    !.quiet = (Clearing = {})]]
    /\ UNCHANGED <<isPnpApiInitialized, cachedPnpApi, pnpMu, manifestDirs,
                   discoveries, clears, notPnp>>

\* Line 26
LoadFlag(g) ==
    /\ call[g].pc = "load"
    /\ call' = [call EXCEPT ![g].pc =
                   IF IsInitialized(isPnpApiInitialized) THEN "fast" ELSE "lock"]
    /\ UNCHANGED <<isPnpApiInitialized, cachedPnpApi, pnpMu, manifestDirs,
                   discoveries, clears, apiEvents, notPnp>>

\* Line 27: the read of cachedPnpApi, without the mutex
FastReturn(g) ==
    /\ call[g].pc = "fast"
    /\ call' = [call EXCEPT ![g].pc = "idle", ![g].returned = TRUE,
                            ![g].ret = cachedPnpApi, ![g].via = "fast",
                            ![g].foreign = Foreign(cachedPnpApi, call[g].path),
                            ![g].path = EmptyString,
                            ![g].flagAtEntry = 0,
                            ![g].discAtEntry = 0,
                            ![g].slotAtEntry = NoApi]
    /\ UNCHANGED <<isPnpApiInitialized, cachedPnpApi, pnpMu, manifestDirs,
                   discoveries, clears, apiEvents, notPnp>>

\* Lines 30-35: Lock and the second Load; when the flag is set the call
\* returns cachedPnpApi and the deferred Unlock runs.
LockAndRecheck(g) ==
    /\ call[g].pc = "lock"
    /\ pnpMu = Unlocked
    /\ IF IsInitialized(isPnpApiInitialized)
       THEN /\ call' = [call EXCEPT ![g].pc = "idle", ![g].returned = TRUE,
                                    ![g].ret = cachedPnpApi,
                                    ![g].via = "recheck",
                            ![g].foreign = Foreign(cachedPnpApi, call[g].path),
                            ![g].path = EmptyString,
                            ![g].flagAtEntry = 0,
                            ![g].discAtEntry = 0,
                            ![g].slotAtEntry = NoApi]
            /\ UNCHANGED pnpMu
       ELSE /\ call' = [call EXCEPT ![g].pc = "find"]
            /\ pnpMu' = g
    /\ UNCHANGED <<isPnpApiInitialized, cachedPnpApi, manifestDirs,
                   discoveries, clears, apiEvents, notPnp>>

\* Lines 37-46: the discovery attempt; its outcome is written to cachedPnpApi
Discover(g) ==
    /\ call[g].pc = "find"
    /\ cachedPnpApi' = Discovered(manifestDirs, call[g].path)
    /\ discoveries' = Append(discoveries, cachedPnpApi')
    /\ call' = [call EXCEPT ![g].pc = "store"]
    /\ UNCHANGED <<isPnpApiInitialized, pnpMu, manifestDirs, clears,
                   apiEvents, notPnp>>

\* Lines 48-49 and the deferred Unlock
StoreAndReturn(g) ==
    /\ call[g].pc = "store"
    /\ isPnpApiInitialized' = 1
    /\ pnpMu' = Unlocked
    /\ call' = [call EXCEPT ![g].pc = "idle", ![g].returned = TRUE,
                            ![g].ret = cachedPnpApi, ![g].via = "found",
                            ![g].foreign = Foreign(cachedPnpApi, call[g].path),
                            ![g].path = EmptyString,
                            ![g].flagAtEntry = 0,
                            ![g].discAtEntry = 0,
                            ![g].slotAtEntry = NoApi]
    /\ UNCHANGED <<cachedPnpApi, manifestDirs, discoveries, clears,
                   apiEvents, notPnp>>

\* A goroutine calls ClearPnpCache().
ClearPnpCache(g) ==
    /\ call[g].pc = "idle"
    /\ apiEvents < MaxApiEvents
    /\ apiEvents' = apiEvents + 1
    /\ clears' = clears + 1
    /\ call' = [h \in Goroutines |->
                   IF h = g
                   THEN [IdleCall EXCEPT !.pc = "c-lock", !.kind = "clear",
                                         !.openedAtEntry = openedReaders]
                   ELSE [call[h] EXCEPT !.quiet =
                            call[h].quiet /\ call[h].pc = "idle"]]
    /\ UNCHANGED <<isPnpApiInitialized, cachedPnpApi, pnpMu, manifestDirs,
                   discoveries, notPnp>>

\* Line 17
ClearLock(g) ==
    /\ call[g].pc = "c-lock"
    /\ pnpMu = Unlocked
    /\ pnpMu' = g
    /\ call' = [call EXCEPT ![g].pc = "c-slot"]
    /\ UNCHANGED <<isPnpApiInitialized, cachedPnpApi, manifestDirs,
                   discoveries, clears, apiEvents, notPnp>>

\* Line 19
ClearSlot(g) ==
    /\ call[g].pc = "c-slot"
    /\ cachedPnpApi' = NoApi
    /\ call' = [call EXCEPT ![g].pc = "c-flag"]
    /\ UNCHANGED <<isPnpApiInitialized, pnpMu, manifestDirs, discoveries,
                   clears, apiEvents, notPnp>>

\* Line 20 and the deferred Unlock
ClearFlag(g) ==
    /\ call[g].pc = "c-flag"
    /\ isPnpApiInitialized' = FlagCleared(isPnpApiInitialized)
    /\ pnpMu' = Unlocked
    /\ call' = [call EXCEPT ![g] = IdleCall]
    /\ UNCHANGED <<cachedPnpApi, manifestDirs, discoveries, clears,
                   apiEvents, notPnp>>

\* Another process writes or removes a manifest file.
ChangeManifest(d, file) ==
    /\ apiEvents < MaxApiEvents
    /\ apiEvents' = apiEvents + 1
    /\ manifestDirs[d] # file
    /\ manifestDirs' = [manifestDirs EXCEPT ![d] = file]
    /\ UNCHANGED <<isPnpApiInitialized, cachedPnpApi, pnpMu, call,
                   discoveries, clears, notPnp>>

(***************************************************************************)
(* The virtual-path functions, applied to bounded sets of paths.            *)
(***************************************************************************)
\* A path has at most MaxPathLen elements below the root (not counting the
\* /__virtual__/<hash>/<n> part of an input of resolveVirtual).
MaxPathLen == 3

SeqsUpTo(S, n) == UNION {[1..k -> S] : k \in 0..n}
\* "/" + strings.Join(elems, "/")
AbsPath(elems) == IF elems = <<>> THEN Root ELSE <<"">> \o elems

\* Arguments of makeVirtualPath: with and without a __virtual__ element, at
\* the end or not, relative, with a trailing slash, empty
BasePaths ==
    {AbsPath(e) : e \in SeqsUpTo({"a", VirtualSeg}, MaxPathLen)}
        \cup {EmptyString, <<"a", VirtualSeg>>, <<"b", "a", VirtualSeg>>,
              <<"", "a", VirtualSeg, "">>}
Hashes == {"h", "..", ""}
TargetPaths ==
    {AbsPath(e) : e \in SeqsUpTo({"a", "b", ".."}, MaxPathLen)}
        \cup {EmptyString, <<"a">>, <<"", "a", "">>,
              <<"", "b", VirtualSeg, "a">>}

\* Arguments of resolveVirtual: <anchor>/__virtual__/<hash>/<n>/<sub> with
\* every kind of <n> and <sub>, and paths that are not of that form
Depths == {"0", "1", "2", "3", "01", "+1", "-1", "x"}
VirtualInputs ==
    {AbsPath(anchor \o <<VirtualSeg, hash, n>> \o sub) :
        anchor \in SeqsUpTo({"a"}, MaxPathLen - 1), hash \in {"h", ""},
        n \in Depths, sub \in SeqsUpTo({"a", "b", "..", ""}, 2)}
        \cup {AbsPath(<<"a", "b">>), <<"a", VirtualSeg, "h", "0", "b">>,
              AbsPath(<<"a", "", VirtualSeg, "h", "0", "b">>),
              AbsPath(<<"a", VirtualSeg, "b", VirtualSeg, "h", "0", "b">>)}

\* pathCase: the call made, its arguments and its results.  After
\* makeVirtualPath, path is its result and resolved is resolveVirtual of it;
\* after resolveVirtual, basePath, hash and targetPath are its results and
\* made is makeVirtualPath of them.
NoPathCase == [op |-> "none", basePath |-> EmptyString, hash |-> "",
               targetPath |-> EmptyString, path |-> EmptyString,
               resolved |-> Untouched(EmptyString), made |-> EmptyString]

CallMakeVirtualPath(basePath, hash, targetPath) ==
    /\ pathCase.op = "none"
    /\ LET made == makeVirtualPath(basePath, hash, targetPath) IN
       pathCase' = [op |-> "make", basePath |-> basePath, hash |-> hash,
                    targetPath |-> targetPath, path |-> made,
                    resolved |-> resolveVirtual(made), made |-> made]
    /\ UNCHANGED notPath

CallResolveVirtual(path) ==
    /\ pathCase.op = "none"
    /\ LET r == resolveVirtual(path) IN
       pathCase' = [op |-> "resolve", basePath |-> r.basePath, hash |-> r.hash,
                    targetPath |-> r.realPath, path |-> path, resolved |-> r,
                    made |-> makeVirtualPath(r.basePath, r.hash, r.realPath)]
    /\ UNCHANGED notPath

(***************************************************************************)
(* Package pnp: the manifest and the resolver.                              *)
(* A specifier, an ident and a package name are sequences of one-character  *)
(* strings; a reference is an opaque string; nil is <<>> and a non-nil      *)
(* pointer to v is <<v>>.                                                   *)
(***************************************************************************)
Nil == <<>>
Locator(name, reference) == [Name |-> name, Reference |-> reference]
PackageDependency(ident, reference, aliasName) ==
    [Ident |-> ident, Reference |-> reference, AliasName |-> aliasName]
PackageInfo(location, dependencies) ==
    [PackageLocation |-> location, PackageDependencies |-> dependencies]
\* An edge is an alias iff its aliasName is not empty.
IsAlias(dep) == dep.AliasName # <<>>

\* The names of the model: the top-level package "", l, i, d, @s/d
TopName    == <<>>
NameL      == <<"l">>
NameI      == <<"i">>
NameD      == <<"d">>
NameScoped == <<"@", "s", "/", "d">>
TopLevel   == Locator(TopName, "")

\* manifest.dirPath is /p
DirPath == <<"", "p">>

\* The elements of a packageLocation, without its trailing slash
LocationSegments(location) ==
    IF Len(location) > 1 /\ Last(location) = "" THEN Front(location)
    ELSE location

\* packageRegistryTrie, as the set of its nodes (a node is the sequence of
\* path segments that leads to it) and the packageData of a node: the trie
\* has a node for every leading part of every package location, and the
\* node of a package's location holds the package's ident and reference.
Prefixes(segments) == {SubSeq(segments, 1, k) : k \in 0..Len(segments)}
TrieNodes(registry) ==
    UNION {Prefixes(LocationSegments(registry[l].PackageLocation)) :
              l \in DOMAIN registry}
PackageData(registry, node) ==
    LET here == {l \in DOMAIN registry :
                    LocationSegments(registry[l].PackageLocation) = node}
    IN  IF here = {} THEN Nil ELSE <<CHOOSE l \in here : TRUE>>

\* The registry of the model: the top-level package at ./, l at ./n/l/, i
\* inside l at ./n/l/n/i/, and three versions of d and one of @s/d.
Registry(topDeps, lDeps) ==
    LET at == [l \in {TopLevel, Locator(NameL, "1"), Locator(NameI, "1"),
                      Locator(NameD, "1"), Locator(NameD, "2"),
                      Locator(NameD, "3"), Locator(NameScoped, "1")} |->
                 CASE l = TopLevel              -> <<".", "">>
                   [] l = Locator(NameL, "1")   -> <<".", "n", "l", "">>
                   [] l = Locator(NameI, "1")   -> <<".", "n", "l", "n", "i", "">>
                   [] l = Locator(NameD, "1")   -> <<".", "n", "d1", "">>
                   [] l = Locator(NameD, "2")   -> <<".", "n", "d2", "">>
                   [] l = Locator(NameD, "3")   -> <<".", "n", "d3", "">>
                   [] OTHER                     -> <<".", "n", "@s", "d", "">>]
    IN  [l \in DOMAIN at |->
            PackageInfo(at[l], IF l = TopLevel THEN topDeps
                               ELSE IF l.Name = NameL THEN lDeps ELSE <<>>)]

\* PnpManifestData.  ignorePatternData is "" (nil) or the first path element
\* of the relative paths the pattern matches; fallbackExclusionMap maps a
\* name to Entries, the references excluded.
PnpManifestData(topDeps, lDeps, pool, enable, exclusion, pattern) ==
    [dirPath |-> DirPath,
     packageRegistryMap |-> Registry(topDeps, lDeps),
     fallbackPool |-> pool,
     enableTopLevelFallback |-> enable,
     fallbackExclusionMap |-> exclusion,
     ignorePatternData |-> pattern]

\* GetPackage: [ok |-> FALSE] is its panic
GetPackage(manifest, locator) ==
    IF locator \in DOMAIN manifest.packageRegistryMap
    THEN [ok |-> TRUE, info |-> manifest.packageRegistryMap[locator]]
    ELSE [ok |-> FALSE]

\* Lines 173-179: the node the descent stops at
RECURSIVE Descend(_, _, _)
Descend(nodes, currentTrie, pathSegments) ==
    IF pathSegments = <<>> THEN currentTrie
    ELSE IF Append(currentTrie, Head(pathSegments)) \notin nodes
         THEN currentTrie
         ELSE Descend(nodes, Append(currentTrie, Head(pathSegments)),
                      Tail(pathSegments))

\* strings.HasPrefix(relativePath, "../")
HasDotDotPrefix(relativePath) ==
    Len(relativePath) >= 2 /\ relativePath[1] = ".."

\* Lines 162-169
PathSegments(relativePath) ==
    IF HasDotDotPrefix(relativePath) THEN relativePath
    ELSE <<".">> \o relativePath

\* ignorePatternData.MatchString(relativePath)
IgnoreMatch(pattern, relativePath) == relativePath[1] = pattern

\* Lines 170-185, from the relative path
LocatorOfLast(data) == [err |-> data = Nil, locator |-> data]
LocatorFrom(manifest, relativePath) ==
    LocatorOfLast(
        PackageData(manifest.packageRegistryMap,
                    Descend(TrieNodes(manifest.packageRegistryMap), <<>>,
                            PathSegments(relativePath))))

\* FindLocator: err tells that it returns an error, locator is the pointer
FindLocatorRel(manifest, rel) ==
    IF ~rel.ok THEN [err |-> TRUE, locator |-> Nil]
    ELSE IF manifest.ignorePatternData # ""
            /\ IgnoreMatch(manifest.ignorePatternData, rel.path)
         THEN [err |-> FALSE, locator |-> Nil]
         ELSE LocatorFrom(manifest, rel.path)

FindLocator(manifest, parentPath) ==
    FindLocatorRel(manifest, Rel(manifest.dirPath, parentPath))

\* The first element of deps with the ident (lines 65-70, 192-196), as a
\* pointer
RECURSIVE FirstDep(_, _)
FirstDep(deps, ident) ==
    IF deps = <<>> THEN Nil
    ELSE IF Head(deps).Ident = ident THEN <<Head(deps)>>
         ELSE FirstDep(Tail(deps), ident)

\* Lines 199-207
RECURSIVE FirstOfPool(_, _)
FirstOfPool(pool, name) ==
    IF pool = <<>> THEN Nil
    ELSE IF Head(pool)[1] = name
         THEN <<PackageDependency(Head(pool)[1], Head(pool)[2], <<>>)>>
         ELSE FirstOfPool(Tail(pool), name)

\* ResolveViaFallback, with the fallback pool before the top-level package
PoolFirst(topDep, poolDep) == IF poolDep # Nil THEN poolDep ELSE topDep
\* ResolveViaFallback: the top-level package's edge if there is one
TopFirst(topDep, poolDep) == IF topDep # Nil THEN topDep ELSE poolDep

\* ResolveViaFallback: [ok |-> FALSE] is the panic of GetPackage
ResolveViaFallback(manifest, name) ==
    IF ~GetPackage(manifest, TopLevel).ok THEN [ok |-> FALSE]
    ELSE [ok |-> TRUE,
          dep |-> TopFirst(
                    FirstDep(GetPackage(manifest, TopLevel).info
                                 .PackageDependencies, name),
                    FirstOfPool(manifest.fallbackPool, name))]

\* strings.Index(s, "/"), counted from 1; 0 when there is none
RECURSIVE IndexSlash(_)
IndexSlash(s) ==
    IF s = <<>> THEN 0
    ELSE IF Head(s) = "/" THEN 1
         ELSE IF IndexSlash(Tail(s)) = 0 THEN 0 ELSE 1 + IndexSlash(Tail(s))

\* Lines 224-230: the ident of a specifier that begins with @
ScopedWhole(specifier, firstSlash, secondSlash) == specifier
ScopedIdent(specifier, firstSlash, secondSlash) ==
    IF secondSlash = 0 THEN specifier
    ELSE SubSeq(specifier, 1, firstSlash + secondSlash - 1)

\* Lines 217-239
IdentOf(specifier, firstSlash) ==
    IF specifier[1] = "@"
    THEN ScopedIdent(specifier, firstSlash,
                     IndexSlash(SubSeq(specifier, firstSlash + 1,
                                       Len(specifier))))
    ELSE IF firstSlash = 0 THEN specifier
         ELSE SubSeq(specifier, 1, firstSlash - 1)

\* Lines 241-243
Parsed(specifier, ident) ==
    [ok |-> TRUE, ident |-> ident,
     modulePath |-> SubSeq(specifier, Len(ident) + 1, Len(specifier))]

\* ParseBareIdentifier: [ok |-> FALSE] is its error
ParseBareIdentifier(specifier) ==
    IF Len(specifier) = 0 THEN [ok |-> FALSE]
    ELSE IF specifier[1] = "@" /\ IndexSlash(specifier) = 0
         THEN [ok |-> FALSE]
         ELSE Parsed(specifier, IdentOf(specifier, IndexSlash(specifier)))

\* Lines 75-83
Excluded(manifest, parentLocator) ==
    /\ parentLocator.Name \in DOMAIN manifest.fallbackExclusionMap
    /\ parentLocator.Reference
           \in manifest.fallbackExclusionMap[parentLocator.Name]

\* A module path as a path: its pieces between the slashes.  The module
\* paths of the model have pieces of at most one character.
RECURSIVE PathOfChars(_, _)
PathOfChars(chars, piece) ==
    IF chars = <<>> THEN <<piece>>
    ELSE IF Head(chars) = "/" THEN <<piece>> \o PathOfChars(Tail(chars), "")
         ELSE PathOfChars(Tail(chars), Head(chars))

\* What ResolveToUnqualified returns, with what it has found on the way:
\* kind is "skip" (the empty result), "undeclared" or "peer" (the two
\* errors), "panic" or "path"; consulted tells that ResolveViaFallback was
\* called, edge is referenceOrAlias after line 91.
Outcome(kind, path, parsed, parentLocator, declared, consulted, edge) ==
    [kind |-> kind, path |-> path, ident |-> parsed.ident,
     modulePath |-> parsed.modulePath, parentLocator |-> parentLocator,
     declared |-> declared, consulted |-> consulted, edge |-> edge]
Skipped ==
    [kind |-> "skip", path |-> EmptyString, ident |-> <<>>,
     modulePath |-> <<>>, parentLocator |-> Nil, declared |-> Nil,
     consulted |-> FALSE, edge |-> Nil]

\* Lines 109-116
TargetLocator(dep) ==
    IF IsAlias(dep) THEN Locator(dep.AliasName, dep.Reference)
    ELSE Locator(dep.Ident, dep.Reference)

Unqualified(manifest, dependencyPkg, modulePath) ==
    IF ~dependencyPkg.ok THEN Panic
    ELSE Join(<<manifest.dirPath, dependencyPkg.info.PackageLocation,
               IF modulePath = <<>> THEN EmptyString
               ELSE PathOfChars(modulePath, "")>>)

\* Lines 93-116
KindWithoutPeer(manifest, edge) ==
    IF edge = Nil THEN "undeclared"
    ELSE IF ~GetPackage(manifest, TargetLocator(edge[1])).ok THEN "panic"
    ELSE "path"
KindOf(manifest, edge) ==
    IF edge = Nil THEN "undeclared"
    ELSE IF ~IsAlias(edge[1]) /\ edge[1].Reference = "" THEN "peer"
    ELSE IF ~GetPackage(manifest, TargetLocator(edge[1])).ok THEN "panic"
    ELSE "path"

Finish(manifest, parsed, parentLocator, declared, consulted, edge) ==
    Outcome(KindOf(manifest, edge),
            IF KindOf(manifest, edge) = "path"
            THEN Unqualified(manifest,
                             GetPackage(manifest, TargetLocator(edge[1])),
                             parsed.modulePath)
            ELSE EmptyString,
            parsed, parentLocator, declared, consulted, edge)

\* Lines 85-88
ViaFallback(manifest, parsed, parentLocator, fallback) ==
    IF ~fallback.ok
    THEN Outcome("panic", EmptyString, parsed, parentLocator, Nil, TRUE, Nil)
    ELSE Finish(manifest, parsed, parentLocator, Nil, TRUE, fallback.dep)

\* Lines 72-91
AfterLookup(manifest, parsed, parentLocator, declared) ==
    IF declared # Nil
    THEN Finish(manifest, parsed, parentLocator, declared, FALSE, declared)
    ELSE IF manifest.enableTopLevelFallback
            /\ ~Excluded(manifest, parentLocator[1])
         THEN ViaFallback(manifest, parsed, parentLocator,
                          ResolveViaFallback(manifest, parsed.ident))
         ELSE Finish(manifest, parsed, parentLocator, Nil, FALSE, Nil)

\* Lines 62-70
AfterLocate(manifest, parsed, parentLocator, parentPkg) ==
    IF ~parentPkg.ok
    THEN Outcome("panic", EmptyString, parsed, parentLocator, Nil, FALSE, Nil)
    ELSE AfterLookup(manifest, parsed, parentLocator,
                     FirstDep(parentPkg.info.PackageDependencies, parsed.ident))

\* Lines 56-60
AfterParse(manifest, parsed, found) ==
    IF found.err \/ found.locator = Nil THEN Skipped
    ELSE AfterLocate(manifest, parsed, found.locator,
                     GetPackage(manifest, found.locator[1]))

\* ResolveToUnqualified, with a manifest loaded
ResolveToUnqualified(manifest, specifier, parentPath) ==
    IF ~ParseBareIdentifier(specifier).ok THEN Skipped
    ELSE AfterParse(manifest, ParseBareIdentifier(specifier),
                    FindLocator(manifest, parentPath))

\* The manifests of the model.
DepD(reference) == PackageDependency(NameD, reference, <<>>)
TopDeps ==
    {<<>>, <<DepD("1")>>,
     <<PackageDependency(NameL, "1", <<>>), DepD("1"), DepD("3")>>,
     <<PackageDependency(NameD, "2", NameD)>>}
LDeps ==
    {<<>>, <<DepD("3")>>, <<DepD("")>>,
     <<PackageDependency(NameScoped, "1", <<>>)>>}
Pools ==
    {<<>>, <<<<NameD, "2">>>>,
     <<<<NameL, "1">>, <<NameD, "2">>, <<NameD, "3">>>>,
     <<<<NameD, "9">>>>}
Exclusions ==
    {<<>>, [n \in {NameL} |-> {"1"}], [n \in {NameL} |-> {"2"}],
     [n \in {NameL, NameI} |-> {"1"}]}
Manifests ==
    {PnpManifestData(topDeps, lDeps, pool, enable, exclusion, pattern) :
        topDeps \in TopDeps, lDeps \in LDeps, pool \in Pools,
        enable \in BOOLEAN, exclusion \in Exclusions, pattern \in {"", "g"}}

\* The arguments of the calls
ParentPaths ==
    {<<"", "p", "s", "a">>, <<"", "p", "n", "l", "f">>,
     <<"", "p", "n", "l", "n", "i", "f">>, <<"", "p", "n", "f">>,
     <<"", "p", "n", "l", "n", "f">>, <<"", "p", "n", "l">>,
     <<"", "p">>, <<"", "q", "f">>, <<"", "p", "g", "f">>, <<"s", "a">>}
Specifiers ==
    {<<"d">>, <<"d", "/", "x">>, <<"@", "s", "/", "d">>,
     <<"@", "s", "/", "d", "/", "x", "/", "y">>, <<"@", "s">>, <<>>,
     <<"l">>, <<"x">>}

\* pnpCase: the manifest loaded, the call made and what it returned
NoPnpCase == [op |-> "none"]

\* p.manifest is loaded: the result of parseManifestFromPath
LoadManifest(manifest) ==
    /\ pnpCase = NoPnpCase
    /\ pnpCase' = [op |-> "loaded", manifest |-> manifest]
    /\ UNCHANGED notCase

CallFindLocator(parentPath) ==
    /\ pnpCase.op = "loaded"
    /\ pnpCase' = [op |-> "FindLocator", manifest |-> pnpCase.manifest,
                   parentPath |-> parentPath,
                   found |-> FindLocator(pnpCase.manifest, parentPath)]
    /\ UNCHANGED notCase

CallResolveToUnqualified(specifier, parentPath) ==
    /\ pnpCase.op = "loaded"
    /\ pnpCase' = [op |-> "ResolveToUnqualified",
                   manifest |-> pnpCase.manifest,
                   specifier |-> specifier, parentPath |-> parentPath,
                   out |-> ResolveToUnqualified(pnpCase.manifest, specifier,
                                                parentPath)]
    /\ UNCHANGED notCase

(***************************************************************************)
(* Package pnpvfs: the operations of pnpFS, one call at a time.             *)
(* What an operation of a vfs.FS returns is modelled by the paths it holds  *)
(* (the path Realpath returns, the names in the Entries, the paths handed   *)
(* to the WalkDirFunc, in order) and by value, which stands for all the     *)
(* rest (the bool, the error, the contents, the FileInfo).                  *)
(***************************************************************************)
\* A run holds at most MaxCalls calls of operations.
MaxCalls == 3

Result(value, paths) == [value |-> value, paths |-> paths]

\* The vfs.FS the operation is called on, "under" (pnpFS.fs) or "zip"
\* (iovfs.From(usedReader.reader, ...)), the two paths getMatchingFS
\* returns, and what the call has done to the cache: map, closed (the
\* readers it has closed), opened, and locked (it took cacheReaderMutex).
Matching(fs, formattedPath, zipPath, map, closed, opened, locked) ==
    [fs |-> fs, formattedPath |-> formattedPath, zipPath |-> zipPath,
     map |-> map, closed |-> closed, opened |-> opened, locked |-> locked]

\* return pnpFS.fs, path, ""
UnderlyingFS(map, opened, path, locked) ==
    Matching("under", path, EmptyString, map, {}, opened, locked)

\* Lines 180-188: the new reader is stored, after an eviction when the
\* cache is full
Inserted(map, zipPath, internalPath, usedReader) ==
    IF CacheFull(map)
    THEN {Matching("zip", internalPath, zipPath,
                   MapPut(MapDelete(map, victim), zipPath, usedReader),
                   {map[victim].reader}, usedReader.reader, TRUE) :
              victim \in OldestReaders(map)}
    ELSE {Matching("zip", internalPath, zipPath,
                   MapPut(map, zipPath, usedReader), {}, usedReader.reader,
                   TRUE)}

\* Lines 165-188: under cacheReaderMutex
UnderMutex(map, dsk, now, opened, path, split, zipMTime) ==
    IF CacheHit(map, split.zipPath, zipMTime)
    THEN {Matching("zip", split.internalPath, split.zipPath,
                   [map EXCEPT ![split.zipPath].lastUsed = now], {}, opened,
                   TRUE)}
    ELSE IF ~CanOpen(dsk, split.zipPath)
         THEN {UnderlyingFS(map, opened, path, TRUE)}
         ELSE Inserted(map, split.zipPath, split.internalPath,
                       cachedZipReader(opened + 1, now, zipMTime))

\* getMatchingFS, run from its first line to its return: the set of the
\* returns it can make (deleteOldestReader may have a choice)
getMatchingFS(map, dsk, now, opened, path) ==
    IF ~IsZipPath(path) THEN {UnderlyingFS(map, opened, path, FALSE)}
    ELSE IF ~ZipStat(dsk, splitZipPath(path).zipPath).exists
         THEN {UnderlyingFS(map, opened, path, FALSE)}
         ELSE UnderMutex(map, dsk, now, opened, path, splitZipPath(path),
                         ZipStat(dsk, splitZipPath(path).zipPath).mtime)

\* What the operation called on a vfs.FS can return.  Realpath returns the
\* path itself, another path (a symbolic link), or a path that is not
\* clean; GetAccessibleEntries returns names; WalkDir visits the root and
\* what is below it.
FsResults(name, path) ==
    CASE name \in {"FileExists", "DirectoryExists"} ->
             {Result(b, <<>>) : b \in BOOLEAN}
      [] name \in {"WriteFile", "Remove", "Chtimes"} ->
             {Result(e, <<>>) : e \in {"nil", "error"}}
      [] name = "ReadFile" ->
             {Result(<<"", FALSE>>, <<>>), Result(<<"contents", TRUE>>, <<>>)}
      [] name = "Stat" -> {Result("nil", <<>>), Result("FileInfo", <<>>)}
      [] name = "Realpath" ->
             {Result("", <<path>>), Result("", << <<"", "q", "f">> >>),
              Result("", << <<"", "q", "">> >>)}
      [] name = "GetAccessibleEntries" ->
             {Result(<<0, 0>>, <<>>),
              Result(<<1, 1>>, << <<"d">>, <<"f">> >>)}
      [] OTHER ->
             {Result("nil", <<path>>),
              Result("error", <<path, Join(<<path, <<"f">>>>)>>)}

\* Lines 73-74, 78-79, 103-104, 131-132: a path of the result, as the
\* caller gets it
Unrewritten(basePath, hash, zipPath, path) == path
Rewritten(basePath, hash, zipPath, path) ==
    makeVirtualPath(basePath, hash, Join(<<zipPath, path>>))

\* What the operation returns: the paths are rewritten by the operations
\* named in the set, the rest is handed on
ReturnedResult(name, resolved, zipPath, got) ==
    IF name \in {"Realpath", "GetAccessibleEntries", "WalkDir"}
    THEN Result(got.value,
                [i \in DOMAIN got.paths |->
                    Rewritten(resolved.basePath, resolved.hash, zipPath,
                              got.paths[i])])
    ELSE got

\* fsCall: the operation called, its argument, the vfs.FS and the operation
\* called on it with its argument, whether cacheReaderMutex was taken, what
\* that operation returned and what the pnpFS operation returns
NoFsCall == [op |-> "none"]
FsCall(name, path, fs, called, calledPath, locked, got, returned) ==
    [op |-> name, path |-> path, fs |-> fs, called |-> called,
     calledPath |-> calledPath, locked |-> locked, got |-> got,
     returned |-> returned]

\* resolveVirtual, getMatchingFS and the call of the operation on the FS it
\* returns.  A call takes time: time.Now() has advanced since the last one.
Dispatch(name, path, resolved) ==
    /\ events < MaxCalls
    /\ events' = events + 1
    /\ clock' = clock + 1
    /\ \E matching \in getMatchingFS(cachedZipReadersMap, disk, clock + 1,
                                     openedReaders, resolved.realPath) :
           /\ cachedZipReadersMap' = matching.map
           /\ closedReaders' = closedReaders \cup matching.closed
           /\ openedReaders' = matching.opened
           /\ \E got \in FsResults(name, matching.formattedPath) :
                  fsCall' = FsCall(name, path, matching.fs, name,
                                   matching.formattedPath, matching.locked,
                                   got,
                                   ReturnedResult(name, resolved,
                                                  matching.zipPath, got))
    /\ UNCHANGED <<cacheReaderMutex, disk, op, notCall>>

\* Lines 46-48 and 58-60: return pnpFS.fs.FileExists(path)
ArchiveFileExists(name, path, real) ==
    /\ events < MaxCalls
    /\ events' = events + 1
    /\ clock' = clock + 1
    /\ \E got \in FsResults("FileExists", real) :
           fsCall' = FsCall(name, path, "under", "FileExists", real, FALSE,
                            got, got)
    /\ UNCHANGED <<cachedZipReadersMap, closedReaders, openedReaders,
                   cacheReaderMutex, disk, op, notCall>>

DirectoryExists(path) ==
    IF HasZipSuffix(resolveVirtual(path).realPath)
    THEN ArchiveFileExists("DirectoryExists", path,
                           resolveVirtual(path).realPath)
    ELSE Dispatch("DirectoryExists", path, resolveVirtual(path))

FileExists(path) ==
    IF HasZipSuffix(resolveVirtual(path).realPath)
    THEN ArchiveFileExists("FileExists", path, resolveVirtual(path).realPath)
    ELSE Dispatch("FileExists", path, resolveVirtual(path))

GetAccessibleEntries(path) ==
    Dispatch("GetAccessibleEntries", path, resolveVirtual(path))

ReadFile(path) == Dispatch("ReadFile", path, resolveVirtual(path))

Chtimes(path) == Dispatch("Chtimes", path, resolveVirtual(path))

Realpath(path) == Dispatch("Realpath", path, resolveVirtual(path))

Remove(path) == Dispatch("Remove", path, resolveVirtual(path))

Stat(path) == Dispatch("Stat", path, resolveVirtual(path))

WalkDir(root) == Dispatch("WalkDir", root, resolveVirtual(root))

WriteFile(path) == Dispatch("WriteFile", path, resolveVirtual(path))

\* The paths the operations are called with: plain, through a virtual
\* folder, with a depth strconv.Atoi rejects, in an archive, an archive
\* itself, in an archive that does not exist, and in an archive through a
\* virtual folder
DispatchPaths ==
    {<<"", "p", "f">>,
     <<"", "p", VirtualSeg, "h", "0", "f">>,
     <<"", "p", VirtualSeg, "h", "1", "d">>,
     <<"", "p", VirtualSeg, "h", "x", "f">>,
     <<"", ZipSeg(1), "f">>, <<"", ZipSeg(2), "f">>, <<"", ZipSeg(3), "f">>,
     <<"", ZipSeg(1)>>, <<"", "gone.zip", "f">>,
     <<"", "p", VirtualSeg, "h", "1", ZipSeg(1), "f">>}


\* The specifiers ParseBareIdentifier is called with on its own: every
\* string of at most MaxSpecLen characters out of @, / and a letter
MaxSpecLen == 6
ParseInputs == SeqsUpTo({"@", "/", "a"}, MaxSpecLen)

\* A call of ParseBareIdentifier, which reads nothing of the PnpApi
CallParseBareIdentifier(specifier) ==
    /\ pnpCase = NoPnpCase
    /\ pnpCase' = [op |-> "ParseBareIdentifier", specifier |-> specifier,
                   parsed |-> ParseBareIdentifier(specifier)]
    /\ UNCHANGED notCase

\* A run of SpecInvalidate holds at most MaxClears calls of ClearPnpCache.
MaxClears == 1

\* The manifest is invalidated while a pnpFS is in use: a call of
\* ClearPnpCache
Invalidate(g) ==
    /\ clears < MaxClears
    /\ ClearPnpCache(g)

InitVfsIdle ==
    /\ cachedZipReadersMap = <<>>
    /\ cacheReaderMutex = Unlocked
    /\ closedReaders = {}
    /\ openedReaders = 0
    /\ clock = 0
    /\ disk = <<>>
    /\ op = <<>>
    /\ events = 0

InitPnpIdle ==
    /\ isPnpApiInitialized = 0
    /\ cachedPnpApi = NoApi
    /\ pnpMu = Unlocked
    /\ manifestDirs = <<>>
    /\ call = <<>>
    /\ discoveries = <<>>
    /\ clears = 0
    /\ apiEvents = 0

Init ==
    /\ InitVfs
    /\ InitPnpIdle
    /\ pathCase = NoPathCase
    /\ pnpCase = NoPnpCase
    /\ fsCall = NoFsCall

Next ==
    \/ \E g \in Goroutines, path \in CachePaths : Enter(g, path)
    \/ \E g \in Goroutines : Lookup(g)
    \/ \E g \in Goroutines : Evict(g)
    \/ \E g \in Goroutines : Insert(g)
    \/ \E g \in Goroutines : UseFS(g)
    \/ Tick
    \/ \E a \in ArchivePaths : Touch(a)

Spec == Init /\ [][Next]_vars


(***************************************************************************)
(* Specification SpecApi: goroutines calling GetPnpApi and ClearPnpCache,   *)
(* and the manifest files changing on disk.                                 *)
(***************************************************************************)
InitApi ==
    /\ InitVfsIdle
    /\ InitPnp
    /\ pathCase = NoPathCase
    /\ pnpCase = NoPnpCase
    /\ fsCall = NoFsCall

NextApi ==
    \/ \E g \in Goroutines, filePath \in ApiPaths : GetPnpApi(g, filePath)
    \/ \E g \in Goroutines : LoadFlag(g)
    \/ \E g \in Goroutines : FastReturn(g)
    \/ \E g \in Goroutines : LockAndRecheck(g)
    \/ \E g \in Goroutines : Discover(g)
    \/ \E g \in Goroutines : StoreAndReturn(g)
    \/ \E g \in Goroutines : ClearPnpCache(g)
    \/ \E g \in Goroutines : ClearLock(g)
    \/ \E g \in Goroutines : ClearSlot(g)
    \/ \E g \in Goroutines : ClearFlag(g)
    \/ \E d \in ManifestPlaces, file \in {"none", "good", "bad"} :
           ChangeManifest(d, file)

SpecApi == InitApi /\ [][NextApi]_vars

(***************************************************************************)
(* Specification SpecPath: calls of makeVirtualPath and resolveVirtual.     *)
(***************************************************************************)
InitPath ==
    /\ InitVfsIdle
    /\ InitPnpIdle
    /\ pathCase = NoPathCase
    /\ pnpCase = NoPnpCase
    /\ fsCall = NoFsCall

NextPath ==
    \/ \E basePath \in BasePaths, hash \in Hashes, targetPath \in TargetPaths :
           CallMakeVirtualPath(basePath, hash, targetPath)
    \/ \E path \in VirtualInputs : CallResolveVirtual(path)

SpecPath == InitPath /\ [][NextPath]_vars

(***************************************************************************)
(* Specification SpecResolve: a manifest is loaded and FindLocator or       *)
(* ResolveToUnqualified is called.                                          *)
(***************************************************************************)
InitResolve ==
    /\ InitVfsIdle
    /\ InitPnpIdle
    /\ pathCase = NoPathCase
    /\ pnpCase = NoPnpCase
    /\ fsCall = NoFsCall

NextResolve ==
    \/ \E manifest \in Manifests : LoadManifest(manifest)
    \/ \E parentPath \in ParentPaths : CallFindLocator(parentPath)
    \/ \E specifier \in Specifiers, parentPath \in ParentPaths :
           CallResolveToUnqualified(specifier, parentPath)

SpecResolve == InitResolve /\ [][NextResolve]_vars

(***************************************************************************)
(* Specification SpecDispatch: the operations of one pnpFS, called one      *)
(* after the other on plain, virtual and archive paths.                     *)
(***************************************************************************)
InitDispatch ==
    /\ InitVfs
    /\ InitPnpIdle
    /\ pathCase = NoPathCase
    /\ pnpCase = NoPnpCase
    /\ fsCall = NoFsCall

NextDispatch ==
    \/ \E path \in DispatchPaths : DirectoryExists(path)
    \/ \E path \in DispatchPaths : FileExists(path)
    \/ \E path \in DispatchPaths : GetAccessibleEntries(path)
    \/ \E path \in DispatchPaths : ReadFile(path)
    \/ \E path \in DispatchPaths : Chtimes(path)
    \/ \E path \in DispatchPaths : Realpath(path)
    \/ \E path \in DispatchPaths : Remove(path)
    \/ \E path \in DispatchPaths : Stat(path)
    \/ \E root \in DispatchPaths : WalkDir(root)
    \/ \E path \in DispatchPaths : WriteFile(path)

SpecDispatch == InitDispatch /\ [][NextDispatch]_vars

(***************************************************************************)
(* Specification SpecParse: one call of ParseBareIdentifier.                *)
(***************************************************************************)
InitParse ==
    /\ InitVfsIdle
    /\ InitPnpIdle
    /\ pathCase = NoPathCase
    /\ pnpCase = NoPnpCase
    /\ fsCall = NoFsCall

NextParse == \E specifier \in ParseInputs : CallParseBareIdentifier(specifier)

SpecParse == InitParse /\ [][NextParse]_vars

(***************************************************************************)
(* Specification SpecInvalidate: goroutines calling the operations of one   *)
(* pnpFS while ClearPnpCache is called.                                     *)
(***************************************************************************)
InitInvalidate ==
    /\ InitVfs
    /\ InitPnp
    /\ pathCase = NoPathCase
    /\ pnpCase = NoPnpCase
    /\ fsCall = NoFsCall

NextInvalidate ==
    \/ \E g \in Goroutines, path \in CachePaths : Enter(g, path)
    \/ \E g \in Goroutines : Lookup(g)
    \/ \E g \in Goroutines : Evict(g)
    \/ \E g \in Goroutines : Insert(g)
    \/ \E g \in Goroutines : UseFS(g)
    \/ \E g \in Goroutines : Invalidate(g)
    \/ \E g \in Goroutines : ClearLock(g)
    \/ \E g \in Goroutines : ClearSlot(g)
    \/ \E g \in Goroutines : ClearFlag(g)

SpecInvalidate == InitInvalidate /\ [][NextInvalidate]_vars

(***************************************************************************)
(* The claims.                                                              *)
(***************************************************************************)
CacheSize == Cardinality(DOMAIN cachedZipReadersMap)
Readers(map) == {map[p].reader : p \in DOMAIN map}

\* C1: in every reachable state of a pnpFS, under any interleaving of its
\* operations over any archives, the reader cache holds at most
\* maxOpenReaders entries.
C1_CacheBounded == CacheSize <= maxOpenReaders

\* C1 witness: a goroutine has just stored a reader in a cache that was
\* full, after an eviction, and the cache is full again.
C1_Witness ==
    \E g \in Goroutines :
        /\ op[g].pc = "use"
        /\ op[g].evicted # NoEntry
        /\ CacheSize = maxOpenReaders

\* C3: when a new reader is to be stored while the cache holds
\* maxOpenReaders entries, the eviction removes exactly one entry, one whose
\* lastUsed is minimal among the cached entries, and closes its reader; when
\* the new entry is stored the evicted reader is closed and gone from the
\* map, and nothing else is removed.  lastUsed is refreshed on every hit.
C3_EvictsOldest ==
    [][\A g \in Goroutines :
        /\ (op[g].pc = "evict" /\ op'[g].pc = "insert"
               /\ CacheSize >= maxOpenReaders)
            => \E victim \in DOMAIN cachedZipReadersMap :
                 /\ \A q \in DOMAIN cachedZipReadersMap :
                        cachedZipReadersMap[victim].lastUsed
                            <= cachedZipReadersMap[q].lastUsed
                 /\ cachedZipReadersMap' = MapDelete(cachedZipReadersMap, victim)
                 /\ cachedZipReadersMap[victim].reader \notin closedReaders
                 /\ closedReaders' =
                        closedReaders \cup {cachedZipReadersMap[victim].reader}
        /\ (op[g].pc = "evict" /\ op'[g].pc = "insert"
               /\ CacheSize < maxOpenReaders)
            => /\ cachedZipReadersMap' = cachedZipReadersMap
               /\ closedReaders' = closedReaders
        /\ (op[g].pc = "insert" /\ op'[g].pc = "use")
            => /\ op[g].evicted # NoEntry
                    => /\ op[g].evicted.reader \in closedReaders
                       /\ op[g].evicted.reader \notin Readers(cachedZipReadersMap)
               /\ DOMAIN cachedZipReadersMap' =
                      DOMAIN cachedZipReadersMap \cup {op[g].zipPath}
               /\ \A p \in DOMAIN cachedZipReadersMap \ {op[g].zipPath} :
                      cachedZipReadersMap'[p] = cachedZipReadersMap[p]
               /\ closedReaders' = closedReaders
        /\ (op[g].pc = "lock" /\ op'[g].hit)
            => cachedZipReadersMap'[op[g].zipPath].lastUsed = clock
      ]_vars

\* C3 witness: an eviction has chosen between entries of different age: the
\* evicted entry was used strictly before an entry that stays.
C3_Witness ==
    \E g \in Goroutines :
        /\ op[g].pc = "insert"
        /\ op[g].evicted # NoEntry
        /\ \E p \in DOMAIN cachedZipReadersMap :
               op[g].evicted.lastUsed < cachedZipReadersMap[p].lastUsed

\* C9 as stated: a reader is reused exactly when the cache holds an entry of
\* the archive with the ModTime the operation has read; and an operation
\* that finds an entry with another ModTime leaves getMatchingFS with a new
\* reader, stored in the cache with the new ModTime.
C9_Stated ==
    \A g \in Goroutines :
        (op[g].pc = "use" /\ op[g].stale)
            => /\ op[g].fs = "zip"
               /\ cachedZipReadersMap[op[g].zipPath] =
                      cachedZipReader(op[g].reader,
                                      cachedZipReadersMap[op[g].zipPath].lastUsed,
                                      op[g].zipMTime)

\* C9 amended: the reuse is decided as stated; an operation that finds an
\* entry with another ModTime calls zip.OpenReader, and if that succeeds it
\* returns the new reader and stores it with the ModTime it has read; if it
\* fails the operation goes to the underlying FS and the cache keeps the
\* old entry.
C9_ReuseIffSameMTime ==
    [][\A g \in Goroutines :
        /\ (op[g].pc = "lock" /\ op'[g].pc # "lock")
            => LET zp    == op[g].zipPath
                   same  == /\ zp \in DOMAIN cachedZipReadersMap
                            /\ cachedZipReadersMap[zp].zipMTime = op[g].zipMTime
                   reuse == /\ op'[g].fs = "zip"
                            /\ op'[g].pc = "use"
                            /\ openedReaders' = openedReaders
               IN  /\ reuse <=> same
                   /\ reuse => op'[g].reader = cachedZipReadersMap[zp].reader
                   /\ ~same /\ CanOpen(disk, zp)
                        => /\ openedReaders' = openedReaders + 1
                           /\ op'[g].reader \notin Readers(cachedZipReadersMap)
                   /\ ~same /\ ~CanOpen(disk, zp)
                        => /\ op'[g].fs = "under"
                           /\ cachedZipReadersMap' = cachedZipReadersMap
        /\ (op[g].pc = "insert" /\ op'[g].pc = "use")
            => /\ op'[g].fs = "zip"
               /\ cachedZipReadersMap'[op[g].zipPath] =
                      cachedZipReader(op[g].reader, clock, op[g].zipMTime)
      ]_vars

\* C9 witness: an archive was rewritten, and the next operation on it has
\* replaced the cached reader by a new one with the new ModTime.
C9_Witness ==
    \E g \in Goroutines :
        /\ op[g].pc = "use"
        /\ op[g].stale
        /\ op[g].fs = "zip"
        /\ cachedZipReadersMap[op[g].zipPath].reader = op[g].reader
        /\ cachedZipReadersMap[op[g].zipPath].zipMTime = op[g].zipMTime

\* The GetPnpApi calls that have returned
Returned == {g \in Goroutines : call[g].kind = "get" /\ call[g].returned}
\* The discovery attempts that have completed (line 48 has run)
Completed ==
    Len(discoveries) - Cardinality({g \in Goroutines : call[g].pc = "store"})

\* C2: as long as ClearPnpCache has not been called, the GetPnpApi calls,
\* however they interleave from the uninitialized state, make at most one
\* discovery attempt, and every call that has returned has returned the
\* outcome of that one attempt.
C2_SingleDiscovery ==
    clears = 0 =>
        /\ Len(discoveries) <= 1
        /\ \A g \in Returned :
               /\ Len(discoveries) = 1
               /\ call[g].ret = discoveries[1]

\* C2 witness: two calls with different paths have run concurrently from the
\* uninitialized state: both found the flag 0 at line 26, one made the
\* discovery and found a manifest, the other got the mutex after it.
C2_Witness ==
    /\ clears = 0
    /\ \E g, h \in Returned :
           /\ call[g].via = "found"
           /\ call[h].via = "recheck"
           /\ call[g].ret # NoApi
           /\ call[h].foreign

\* C4: a GetPnpApi call during which no ClearPnpCache call runs, if it starts
\* after a discovery attempt has completed, returns the outcome of the last
\* attempt (nil when it failed) whatever its path and no attempt is made
\* during it; if it starts with the flag 0, as the first call after a
\* ClearPnpCache does, an attempt completes during it and it returns that
\* attempt's outcome.
C4_CachedUntilCleared ==
    [][\A g \in Goroutines :
        (call[g].kind = "get" /\ call[g].pc # "idle" /\ call'[g].pc = "idle"
            /\ call'[g].quiet)
        => /\ call[g].flagAtEntry = 1
                => /\ call[g].discAtEntry >= 1
                   /\ Len(discoveries') = call[g].discAtEntry
                   /\ call'[g].ret = discoveries[call[g].discAtEntry]
                   /\ call'[g].ret = call[g].slotAtEntry
           /\ call[g].flagAtEntry = 0
                => /\ Completed' > call[g].discAtEntry
                   /\ call'[g].ret = discoveries'[Len(discoveries')]
      ]_vars

\* C4 witness: a discovery attempt failed; a call with another path returned
\* the cached nil at line 27; after a ClearPnpCache the next call made the
\* second attempt.
C4_Witness ==
    /\ clears >= 1
    /\ Clearing = {}
    /\ Len(discoveries) = 2
    /\ discoveries[1] = NoApi
    /\ \E g, h \in Returned :
           /\ call[g].quiet /\ call[g].via = "found" /\ call[g].ret # NoApi
           /\ call[h].quiet /\ call[h].via = "fast" /\ call[h].ret = NoApi

\* C5 as stated: for every non-empty base and hash and every target,
\* resolveVirtual of the path makeVirtualPath returns gives back the target
\* and the hash.
C5_Stated ==
    (pathCase.op = "make" /\ pathCase.basePath # EmptyString
        /\ pathCase.hash # "")
        => /\ pathCase.resolved.realPath = pathCase.targetPath
           /\ pathCase.resolved.hash = pathCase.hash

\* C6 as stated: for every path with a /__virtual__/<hash>/<n>/ part, <hash>
\* not empty and <n> a non-negative integer, makeVirtualPath of the results
\* of resolveVirtual is the path.
HasVirtualPart(path) ==
    LET i == VirtualIndex(path) IN
        /\ i # 0
        /\ Len(path) >= i + 3
        /\ path[i + 1] # ""
        /\ Atoi(path[i + 2]).ok
        /\ Atoi(path[i + 2]).n >= 0

IsPrefix(a, b) == Len(a) <= Len(b) /\ SubSeq(b, 1, Len(a)) = a
IsCleanAbs(path) == IsRooted(path) /\ Clean(path) = path
WellFormedBase(basePath) ==
    /\ IsCleanAbs(basePath)
    /\ Len(basePath) >= 3
    /\ Last(basePath) = VirtualSeg
    /\ \A i \in 1..(Len(basePath) - 1) : basePath[i] # VirtualSeg
WellFormedHash(hash) == hash \notin {"", ".", ".."}
WellFormedTarget(basePath, targetPath) ==
    /\ IsCleanAbs(targetPath)
    /\ targetPath # Root
    /\ ~IsPrefix(targetPath, Front(basePath))

\* C5 amended: for every well-formed base, hash and target, resolveVirtual
\* of the path makeVirtualPath returns gives back the target, the hash and
\* the base.
C5_RoundTrip ==
    (pathCase.op = "make" /\ WellFormedBase(pathCase.basePath)
        /\ WellFormedHash(pathCase.hash)
        /\ WellFormedTarget(pathCase.basePath, pathCase.targetPath))
        => pathCase.resolved = [realPath |-> pathCase.targetPath,
                                hash     |-> pathCase.hash,
                                basePath |-> pathCase.basePath]

\* C5 witness: a virtual path was made for a target outside the anchor
\* (depth 2, up to the root) and resolved back to the target.
C5_Witness ==
    /\ pathCase.op = "make"
    /\ WellFormedBase(pathCase.basePath)
    /\ WellFormedHash(pathCase.hash)
    /\ WellFormedTarget(pathCase.basePath, pathCase.targetPath)
    /\ pathCase.made[Len(pathCase.basePath) + 2] = "2"
    /\ pathCase.resolved.realPath = pathCase.targetPath

\* The canonical virtual paths <anchor>/__virtual__/<hash>/<n>/<sub>: the
\* anchor is a non-empty clean absolute path, the hash a path element, <n>
\* the decimal numeral, without sign or leading zero, of a number that is at
\* most the number of elements of the anchor, <sub> a non-empty clean
\* relative path without "..", and when n > 0, <sub> does not begin with the
\* element of the anchor that the n-th dirname removes.
Canonical(path) ==
    LET i == VirtualIndex(path) IN
        /\ i >= 3
        /\ IsCleanAbs(SubSeq(path, 1, i - 1))
        /\ Len(path) >= i + 3
        /\ WellFormedHash(path[i + 1])
        /\ Atoi(path[i + 2]).ok
        /\ Atoi(path[i + 2]).n >= 0
        /\ Itoa(Atoi(path[i + 2]).n) = path[i + 2]
        /\ Atoi(path[i + 2]).n <= i - 2
        /\ \A j \in (i + 3)..Len(path) : path[j] \notin {"", ".", ".."}
        /\ Atoi(path[i + 2]).n > 0
               => path[i + 3] # path[i - Atoi(path[i + 2]).n]

PackageDir(manifest, l) ==
    Join(<<manifest.dirPath, manifest.packageRegistryMap[l].PackageLocation>>)
StrictlyUnder(file, dir) ==
    IsCleanAbs(file) /\ Len(file) > Len(dir) /\ IsPrefix(dir, file)
Owners(manifest, file) ==
    {l \in DOMAIN manifest.packageRegistryMap :
        StrictlyUnder(file, PackageDir(manifest, l))}
\* The packages whose location is on the file's path (the trie nodes on the
\* path that carry a package), and the deepest of them
OnPath(manifest, file) ==
    {l \in DOMAIN manifest.packageRegistryMap :
        IsPrefix(PackageDir(manifest, l), file)}
Owner(manifest, file) ==
    CHOOSE l \in OnPath(manifest, file) :
        \A k \in OnPath(manifest, file) :
            Len(PackageDir(manifest, k)) <= Len(PackageDir(manifest, l))
Ignored(manifest, file) ==
    /\ manifest.ignorePatternData # ""
    /\ IgnoreMatch(manifest.ignorePatternData,
                   Rel(manifest.dirPath, file).path)

\* C7: for every file strictly under the location of some package, and not
\* matched by the ignore pattern, FindLocator returns the locator of the
\* package at the deepest trie node on the file's path that carries a
\* package (the longest matching package location).
C7_Stated ==
    (pnpCase.op = "FindLocator"
        /\ Owners(pnpCase.manifest, pnpCase.parentPath) # {}
        /\ ~Ignored(pnpCase.manifest, pnpCase.parentPath))
        => pnpCase.found =
               [err |-> FALSE,
                locator |-> <<Owner(pnpCase.manifest, pnpCase.parentPath)>>]

\* The first dependency of the top-level package with the ident, or else the
\* first entry of the fallback pool with it, or else nil
FirstIndex(names, ident) ==
    IF \E i \in 1..Len(names) : names[i] = ident
    THEN CHOOSE i \in 1..Len(names) :
             names[i] = ident /\ \A j \in 1..(i - 1) : names[j] # ident
    ELSE 0
ExpectedEdge(manifest, ident) ==
    LET top  == manifest.packageRegistryMap[TopLevel].PackageDependencies
        pool == manifest.fallbackPool
        t    == FirstIndex([i \in 1..Len(top) |-> top[i].Ident], ident)
        q    == FirstIndex([i \in 1..Len(pool) |-> pool[i][1]], ident)
    IN  IF t # 0 THEN <<top[t]>>
        ELSE IF q # 0
             THEN <<PackageDependency(pool[q][1], pool[q][2], <<>>)>>
             ELSE Nil
InExclusionMap(manifest, locator) ==
    \E n \in DOMAIN manifest.fallbackExclusionMap :
        n = locator.Name /\ locator.Reference \in manifest.fallbackExclusionMap[n]
\* ResolveToUnqualified has parsed the specifier and found the parent
\* package, which declares no dependency with the ident
Undeclared ==
    /\ pnpCase.op = "ResolveToUnqualified"
    /\ pnpCase.out.parentLocator # Nil
    /\ pnpCase.out.declared = Nil

\* C10: when the parent package declares no dependency with the parsed
\* ident, ResolveViaFallback is called iff enableTopLevelFallback is set and
\* the parent locator is not in fallbackExclusionMap; the edge it gives is
\* the first dependency of the top-level package with the ident and, only if
\* there is none, the first fallbackPool entry with the ident; when it is
\* not called there is no edge.
C10_Fallback ==
    Undeclared =>
        /\ pnpCase.out.consulted
               <=> (/\ pnpCase.manifest.enableTopLevelFallback
                    /\ ~InExclusionMap(pnpCase.manifest,
                                       pnpCase.out.parentLocator[1]))
        /\ pnpCase.out.consulted
               => pnpCase.out.edge
                      = ExpectedEdge(pnpCase.manifest, pnpCase.out.ident)
        /\ ~pnpCase.out.consulted => pnpCase.out.edge = Nil

\* C10 witness: the parent l declares no d, the map excludes another
\* reference of l only, the top-level package and the pool both have edges
\* for d, and the top-level edge, which is not the first of its list, was
\* chosen.
C10_Witness ==
    /\ Undeclared
    /\ pnpCase.out.parentLocator = <<Locator(NameL, "1")>>
    /\ pnpCase.manifest.fallbackExclusionMap = [n \in {NameL} |-> {"2"}]
    /\ Len(pnpCase.manifest.fallbackPool) = 3
    /\ pnpCase.out.consulted
    /\ pnpCase.out.edge = <<DepD("1")>>
    /\ pnpCase.out.kind = "path"
    /\ pnpCase.out.path = <<"", "p", "n", "d1", "x">>

\* A step that is a call of an operation with a path for which IsZipPath
\* is false
PlainCall ==
    /\ events' = events + 1
    /\ fsCall'.op # "none"
    /\ ~IsZipPath(fsCall'.path)
\* The call neither took cacheReaderMutex nor changed the readers
CacheUntouched ==
    /\ ~fsCall'.locked
    /\ UNCHANGED <<cachedZipReadersMap, cacheReaderMutex, closedReaders,
                   openedReaders>>
\* The same operation of the underlying FS was called
SameOperation == fsCall'.fs = "under" /\ fsCall'.called = fsCall'.op

VirtualForm(path) ==
    \E i \in 2..(Len(path) - 3) :
        /\ path[i] = VirtualSeg
        /\ \A j \in 2..(i - 1) : path[j] # VirtualSeg
        /\ Atoi(path[i + 2]).ok
        /\ Atoi(path[i + 2]).n >= 0
\* filepath.Join("", x)
JoinedAlone(x) == IF x = EmptyString THEN EmptyString ELSE Clean(x)

ParseFails(specifier) ==
    \/ specifier = <<>>
    \/ specifier[1] = "@" /\ \A i \in DOMAIN specifier : specifier[i] # "/"
\* ResolveToUnqualified skips: the parse fails, FindLocator fails or it
\* returns a nil locator
SkipCase ==
    \/ ParseFails(pnpCase.specifier)
    \/ FindLocator(pnpCase.manifest, pnpCase.parentPath).err
    \/ FindLocator(pnpCase.manifest, pnpCase.parentPath).locator = Nil
\* The edge found is not an alias and has an empty reference
PeerEdge(edge) == edge # Nil /\ edge[1].AliasName = <<>> /\ edge[1].Reference = ""
\* The package the edge leads to is in the registry
TargetKnown(manifest, edge) ==
    Locator(IF edge[1].AliasName # <<>> THEN edge[1].AliasName
            ELSE edge[1].Ident, edge[1].Reference)
        \in DOMAIN manifest.packageRegistryMap

\* C11: ResolveToUnqualified returns an error in exactly two cases: no edge
\* for the ident is found after the permitted fallback (the undeclared
\* dependency diagnostic), or the edge found is not an alias and has an
\* empty reference (the unfulfilled peer dependency diagnostic).  A parse
\* failure, a FindLocator failure and a nil locator give the empty string
\* and no error; every other case gives a path and no error, the registry
\* lookup panicking when the manifest has no package for the edge.
C11_Errors ==
    pnpCase.op = "ResolveToUnqualified" =>
        /\ pnpCase.out.kind = "skip" <=> SkipCase
        /\ pnpCase.out.kind = "skip" => pnpCase.out.path = EmptyString
        /\ pnpCase.out.kind = "undeclared"
               <=> (~SkipCase /\ pnpCase.out.edge = Nil)
        /\ pnpCase.out.kind = "peer"
               <=> (~SkipCase /\ PeerEdge(pnpCase.out.edge))
        /\ pnpCase.out.kind \in {"undeclared", "peer"}
               => pnpCase.out.path = EmptyString
        /\ (~SkipCase /\ pnpCase.out.edge # Nil /\ ~PeerEdge(pnpCase.out.edge))
               => IF TargetKnown(pnpCase.manifest, pnpCase.out.edge)
                  THEN /\ pnpCase.out.kind = "path"
                       /\ pnpCase.out.path # EmptyString
                       /\ pnpCase.out.path # Panic
                  ELSE pnpCase.out.kind = "panic"

\* C11 witness: l declares d as a peer dependency (an edge with an empty
\* reference and no alias) and a file of l asks for d: the unfulfilled peer
\* dependency diagnostic is returned, although fallback is enabled.
C11_Witness ==
    /\ pnpCase.op = "ResolveToUnqualified"
    /\ pnpCase.out.kind = "peer"
    /\ pnpCase.out.parentLocator = <<Locator(NameL, "1")>>
    /\ pnpCase.out.edge = <<DepD("")>>
    /\ pnpCase.out.ident = NameD
    /\ pnpCase.manifest.enableTopLevelFallback
    /\ pnpCase.out.path = EmptyString

\* The number of slashes in a string
Slashes(s) == Cardinality({i \in DOMAIN s : s[i] = "/"})
\* An unscoped name: not empty, no slash, no @ in front
LegalUnscoped(ident) == ident # <<>> /\ ident[1] # "@" /\ Slashes(ident) = 0
\* A scoped name @scope/name: an @ in front and the one slash
LegalScoped(ident) == ident # <<>> /\ ident[1] = "@" /\ Slashes(ident) = 1
\* A subpath: empty, or beginning with a slash
LegalSubpath(subpath) == subpath = <<>> \/ subpath[1] = "/"

\* C12: for every legal pair (ident, subpath), ident an unscoped name
\* without a slash or a scoped name @scope/name, subpath empty or beginning
\* with a slash, ParseBareIdentifier(ident + subpath) succeeds and returns
\* exactly (ident, subpath).
C12_ParseInverse ==
    pnpCase.op = "ParseBareIdentifier" =>
        \A k \in 0..Len(pnpCase.specifier) :
            (/\ \/ LegalUnscoped(SubSeq(pnpCase.specifier, 1, k))
                \/ LegalScoped(SubSeq(pnpCase.specifier, 1, k))
             /\ LegalSubpath(SubSeq(pnpCase.specifier, k + 1,
                                    Len(pnpCase.specifier))))
                => pnpCase.parsed =
                       [ok |-> TRUE,
                        ident |-> SubSeq(pnpCase.specifier, 1, k),
                        modulePath |-> SubSeq(pnpCase.specifier, k + 1,
                                              Len(pnpCase.specifier))]

\* C12 witness: @a/a/a is parsed into the scoped name @a/a and the subpath
\* /a.
C12_Witness ==
    /\ pnpCase.op = "ParseBareIdentifier"
    /\ pnpCase.specifier = <<"@", "a", "/", "a", "/", "a">>
    /\ pnpCase.parsed = [ok |-> TRUE, ident |-> <<"@", "a", "/", "a">>,
                         modulePath |-> <<"/", "a">>]

\* The readers zip.OpenReader has returned to a call that has not yet
\* stored them (the call is between lines 175 and 185)
BeingStored ==
    {op[g].reader : g \in {h \in Goroutines : op[h].pc \in {"evict", "insert"}}}

\* C13: every reader the cache has opened is still held in the cache map or
\* has had Close invoked on it (or is about to be stored by the call that
\* opened it): a reader that is replaced because the ModTime of its archive
\* changed is closed, and all readers that left the cache were closed.
C13_Stated ==
    \A r \in 1..openedReaders :
        \/ r \in Readers(cachedZipReadersMap)
        \/ r \in closedReaders
        \/ r \in BeingStored

\* C14: when ClearPnpCache returns, no reader that was opened before the
\* call remains open in the reader cache.
C14_Stated ==
    [][\A g \in Goroutines :
        (call[g].pc = "c-flag" /\ call'[g].pc = "idle")
            => \A r \in 1..call[g].openedAtEntry :
                   r \in Readers(cachedZipReadersMap') => r \in closedReaders'
      ]_vars

\* C15: under any interleaving of the operations on one pnpFS, no operation
\* reads through a reader after Close has been invoked on it: the reader
\* getMatchingFS has handed to an operation, which uses it after the mutex
\* is released, is not closed by the eviction of a concurrent operation
\* before the operation is done.
C15_Stated ==
    [][\A g \in Goroutines :
        (op[g].pc = "use" /\ op[g].fs = "zip" /\ op'[g].pc = "idle")
            => op[g].reader \notin closedReaders
      ]_vars

\* C16: under any interleaving of GetPnpApi and ClearPnpCache calls, every
\* GetPnpApi call returns the outcome of some discovery attempt that has
\* been made; so when every attempt has found a manifest no call returns
\* nil: the fast path never pairs a flag it has read as set with a slot a
\* concurrent ClearPnpCache has already cleared.
C16_Stated ==
    \A g \in Goroutines :
        (call[g].kind = "get" /\ call[g].returned)
            => \E i \in DOMAIN discoveries : discoveries[i] = call[g].ret

====
